---- MODULE Spec2Model ----
(***************************************************************************)
(* Model of the e-commerce sales dashboard (src/main.py): the memoized     *)
(* dataset generator generate_dummy_data and the filter / aggregation      *)
(* script main, rerun by Streamlit on every user interaction.              *)
(*                                                                         *)
(* Calendar dates are day numbers (day 0 is a Monday, so d % 7 is Python's *)
(* date.weekday()).  A pandas Timestamp is a number of seconds since       *)
(* midnight of day 0.  Money is in cents, so round(x, 2) is a rounding to  *)
(* an integer and sums are exact.                                          *)
(***************************************************************************)
EXTENDS Integers, Sequences, FiniteSets, TLC

VARIABLES
    today,           \* the calendar day datetime.today() falls on
    cache,           \* st.cache_data store of this process: (months, seed) -> dataset
    gen_count,       \* (months, seed) -> executions of the generator body in this process
    first_returned,  \* history: (months, seed) -> the dataset its first call ever returned
    call,            \* history: the latest call of generate_dummy_data, <<>> or <<record>>
    gen,             \* history: the latest execution of the generator body, <<>> or <<record>>
    date_sel,        \* widget state of the date input: <<>> (untouched) or the picked dates
    category,        \* widget state of the Category selectbox
    region,          \* widget state of the Region selectbox
    outcome,         \* how the latest run of main ended: "idle", "raised", "warned", "done"
    df_filtered,
    total_revenue,
    total_units,
    avg_order_value,
    sales_time,
    top_products,
    region_summary,
    ui               \* the elements the latest run rendered in the main area, in order

procvars == <<today, cache, gen_count, first_returned, call, gen>>
widgets  == <<date_sel, category, region>>
runvars  == <<outcome, df_filtered, total_revenue, total_units, avg_order_value,
              sales_time, top_products, region_summary, ui>>
vars     == <<procvars, widgets, runvars>>

----------------------------------------------------------------------------
(* Bounds of the model *)

FirstDay  == 280   \* the day the process is first started on
MaxTicks  == 1     \* midnights that pass during a behaviour
MaxMonths == 2     \* generate_dummy_data is called with months in 1..MaxMonths
MaxTx     == 1     \* largest Poisson(8) draw of the model's random stream
MaxUnits  == 2     \* largest Poisson(2) draw of the model's random stream
MaxRows   == 2     \* rows of a dataset drawn directly (SpecPipe)
MaxOption == 2     \* options of a selectbox the user picks among (Spec)

(* Program constants *)

DaysPerMonth == 30
MainMonths   == 9
DefaultSeed  == 42
TopN         == 10

----------------------------------------------------------------------------
(* The catalog (generate_dummy_data, lines 36-59) *)

products ==
    <<"Classic Tee", "Sport Sneakers", "Wireless Headset", "Smartwatch", "Backpack",
      "Running Shorts", "Sunglasses", "Water Bottle", "Phone Case", "Bluetooth Speaker">>

category_names == <<"Apparel", "Footwear", "Electronics", "Accessories">>

categories(k) ==
    CASE k = "Apparel"     -> {"Classic Tee", "Running Shorts"}
      [] k = "Footwear"    -> {"Sport Sneakers"}
      [] k = "Electronics" -> {"Wireless Headset", "Smartwatch", "Bluetooth Speaker"}
      [] k = "Accessories" -> {"Backpack", "Sunglasses", "Water Bottle", "Phone Case"}

regions == <<"North", "South", "East", "West">>

price(product) ==
    CASE product = "Classic Tee"       -> 15
      [] product = "Sport Sneakers"    -> 75
      [] product = "Wireless Headset"  -> 45
      [] product = "Smartwatch"        -> 95
      [] product = "Backpack"          -> 40
      [] product = "Running Shorts"    -> 20
      [] product = "Sunglasses"        -> 25
      [] product = "Water Bottle"      -> 10
      [] product = "Phone Case"        -> 12
      [] product = "Bluetooth Speaker" -> 55

\* [k for k, v in categories.items() if product in v][0]
category_of(product) ==
    LET hits == SelectSeq(category_names, LAMBDA k : product \in categories(k))
    IN  hits[1]

max2(a, b) == IF a >= b THEN a ELSE b
min2(a, b) == IF a <= b THEN a ELSE b

----------------------------------------------------------------------------
(* The seeded random stream.  np.random.seed(seed) makes every later draw  *)
(* a function of the seed and of the number of draws made before it; the   *)
(* model keeps that and replaces the Mersenne Twister by a linear          *)
(* congruential generator whose draws are cut to the model's bounds.       *)

rng_seed(seed) == seed % 65537
rng_next(s)    == (75 * s + 74) % 65537

draw_poisson8(s) == s % (MaxTx + 1)
draw_poisson2(s) == s % (MaxUnits + 1)
draw_product(s)  == products[(s % Len(products)) + 1]
\* np.random.uniform(0.8, 1.2), in thousandths
draw_multiplier(s) == 800 + (s % 401)
\* np.random.choice(regions, p=[0.3, 0.25, 0.2, 0.25])
draw_region(s) ==
    LET u == s % 100
    IN  IF u < 30 THEN regions[1]
        ELSE IF u < 55 THEN regions[2]
        ELSE IF u < 75 THEN regions[3]
        ELSE regions[4]

----------------------------------------------------------------------------
(* generate_dummy_data *)

\* round(whole + n / d) for whole, n >= 0 and d > 0: Python's round takes a tie to
\* the even neighbour
round_half_even(whole, n, d) ==
    LET q == whole + (n \div d)
        r == n % d
    IN  IF 2 * r < d THEN q
        ELSE IF 2 * r > d THEN q + 1
        ELSE IF q % 2 = 0 THEN q ELSE q + 1

\* date_axis with the window shifted to end on the generation day
date_axis_to_today(months, day) ==
    [i \in 1..(months * DaysPerMonth) |-> (day - DaysPerMonth * months) + i]

\* dates = pd.date_range(start=today - 30 * months days, periods=months * 30)
date_axis(months, day) ==
    [i \in 1..(months * DaysPerMonth) |-> (day - DaysPerMonth * months) + (i - 1)]

\* trend = 1 + ((date - dates[0]).days / (len(dates) * 30)) * 0.2, as the fraction
\* trend_num / trend_den (0.2 is 1 / 5)
trend_den(dates) == 5 * (Len(dates) * 30)
trend_num(date, dates) == trend_den(dates) + (date - dates[1])

\* revenue = round(units * price * uniform(0.8, 1.2) * trend, 2), in cents.  With
\* a = units * price * mult (thousandths of a dollar) the amount in cents is
\* a * trend / 10 = a \div 10 + ((a % 10) * den + a * (num - den)) / (10 * den),
\* which keeps every intermediate product inside TLC's integers.
revenue_of(units, product, mult, date, dates) ==
    LET a   == units * price(product) * mult
        num == trend_num(date, dates)
        den == trend_den(dates)
    IN  round_half_even(a \div 10, (a % 10) * den + a * (num - den), 10 * den)

\* one pass of the inner loop body (lines 53-63): the row and the stream after it
transaction(date, dates, s) ==
    LET s1 == rng_next(s)
        s2 == rng_next(s1)
        s3 == rng_next(s2)
        s4 == rng_next(s3)
        product == draw_product(s1)
        units   == max2(1, draw_poisson2(s2))
    IN  [s   |-> s4,
         row |-> [Date       |-> date,
                  Product    |-> product,
                  Category   |-> category_of(product),
                  Units_Sold |-> units,
                  Revenue    |-> revenue_of(units, product, draw_multiplier(s3), date, dates),
                  Region     |-> draw_region(s4)]]

RECURSIVE daily_rows(_, _, _, _, _)
\* for _ in range(daily_tx): k transactions left on this date
daily_rows(date, dates, k, s, rows) ==
    IF k = 0 THEN [s |-> s, rows |-> rows]
    ELSE LET t == transaction(date, dates, s)
         IN  daily_rows(date, dates, k - 1, t.s, Append(rows, t.row))

RECURSIVE span_rows(_, _, _, _)
\* for date in dates: the dates lo..hi of the axis in order, from stream state s.
\* The span is split in two so that the evaluation nests to a depth of log(hi - lo);
\* the test on left.s makes the first half run before the second is entered.
span_rows(dates, lo, hi, s) ==
    IF lo > hi THEN [s |-> s, rows |-> <<>>]
    ELSE IF lo = hi
    THEN LET s1 == rng_next(s)
         IN  daily_rows(dates[lo], dates, draw_poisson8(s1), s1, <<>>)
    ELSE LET mid  == (lo + hi) \div 2
             left == span_rows(dates, lo, mid, s)
         IN  IF left.s < 0 THEN left
             ELSE LET right == span_rows(dates, mid + 1, hi, left.s)
                  IN  [s |-> right.s, rows |-> left.rows \o right.rows]

\* the body of generate_dummy_data, run on calendar day `day`
generate_dummy_data(months, seed, day) ==
    LET dates == date_axis(months, day)
    IN  span_rows(dates, 1, Len(dates), rng_seed(seed)).rows

----------------------------------------------------------------------------
(* Dates and Timestamps *)

seconds_per_day == 24 * 60 * 60

\* pd.to_datetime of a datetime.date: the Timestamp of its midnight
to_datetime(d) == d * seconds_per_day
\* Series.dt.date: the calendar day of a Timestamp
dt_date(ts) == ts \div seconds_per_day
dt_time(ts) == ts % seconds_per_day

\* df["Date"] = pd.to_datetime(df["Date"])
convert_dates(df) == [i \in 1..Len(df) |-> [df[i] EXCEPT !.Date = to_datetime(@)]]

seq_min(vals) == CHOOSE v \in vals : \A w \in vals : v <= w
seq_max(vals) == CHOOSE v \in vals : \A w \in vals : v >= w
\* the values of column f of a frame
column(df, f) == {df[i][f] : i \in 1..Len(df)}

\* df["Date"].min(), df["Date"].max()
min_date(df) == seq_min(column(df, "Date"))
max_date(df) == seq_max(column(df, "Date"))

----------------------------------------------------------------------------
(* The sidebar widgets (main, lines 77-86) *)

sorted_categories == <<"Accessories", "Apparel", "Electronics", "Footwear">>
sorted_regions    == <<"East", "North", "South", "West">>
sorted_products   ==
    <<"Backpack", "Bluetooth Speaker", "Classic Tee", "Phone Case", "Running Shorts",
      "Smartwatch", "Sport Sneakers", "Sunglasses", "Water Bottle", "Wireless Headset">>

\* ["All"] + sorted(df["Category"].unique().tolist())
category_options(df) ==
    <<"All">> \o SelectSeq(sorted_categories, LAMBDA c : c \in column(df, "Category"))
\* ["All"] + sorted(df["Region"].unique().tolist())
region_options(df) ==
    <<"All">> \o SelectSeq(sorted_regions, LAMBDA r : r \in column(df, "Region"))

\* st.sidebar.date_input(value=(min_date, max_date), ...): the tuple of dates the
\* widget returns; sel is the widget's state, <<>> while the user has not touched it
date_input(sel, df) ==
    IF sel = <<>> THEN <<dt_date(min_date(df)), dt_date(max_date(df))>> ELSE sel

----------------------------------------------------------------------------
(* Filtering and aggregation (main, lines 88-133) *)

\* mask with the end of the range left out of it
mask_open_end(r, start_dt, end_dt, cat, reg) ==
    /\ dt_date(r.Date) >= start_dt
    /\ dt_date(r.Date) < end_dt
    /\ (cat # "All" => r.Category = cat)
    /\ (reg # "All" => r.Region = reg)

\* mask without the end of the range
mask_no_end(r, start_dt, end_dt, cat, reg) ==
    /\ dt_date(r.Date) >= start_dt
    /\ (cat # "All" => r.Category = cat)
    /\ (reg # "All" => r.Region = reg)

\* the mask of lines 89-93, for one row
mask(r, start_dt, end_dt, cat, reg) ==
    /\ dt_date(r.Date) >= start_dt
    /\ dt_date(r.Date) <= end_dt
    /\ (cat # "All" => r.Category = cat)
    /\ (reg # "All" => r.Region = reg)

\* df.loc[mask].copy()
filter_rows(df, start_dt, end_dt, cat, reg) ==
    SelectSeq(df, LAMBDA r : mask(r, start_dt, end_dt, cat, reg))

RECURSIVE sum_range(_, _, _, _)
\* Series.sum() over rows lo..hi, split in two to keep the evaluation shallow
sum_range(rows, f, lo, hi) ==
    IF lo > hi THEN 0
    ELSE IF lo = hi THEN rows[lo][f]
    ELSE LET mid == (lo + hi) \div 2
         IN  sum_range(rows, f, lo, mid) + sum_range(rows, f, mid + 1, hi)

series_sum(rows, f) == sum_range(rows, f, 1, Len(rows))

\* total_revenue / (len(df_filtered) if len(df_filtered) else 1), as a fraction
avg_of(total, rows) == [num |-> total, den |-> IF Len(rows) # 0 THEN Len(rows) ELSE 1]

\* week_label with the bins closed on the left: a Sunday opens the next bin
week_label_closed_left(ts) ==
    LET d == dt_date(ts)
    IN  (d + (7 - (d % 7))) * (24 * 60 * 60)

\* pd.Grouper(freq="W") is weekly, anchored on Sunday, bins closed and labelled on
\* the right: the bin of a Timestamp is named by the first Sunday midnight at or
\* after it
week_label(ts) ==
    LET d      == dt_date(ts)
        sunday == d + (6 - (d % 7))
    IN  IF dt_time(ts) = 0 \/ d # sunday
        THEN to_datetime(sunday)
        ELSE to_datetime(sunday + 7)

\* df_filtered.groupby(pd.Grouper(key="Date", freq="W"))["Revenue"].sum().reset_index():
\* one row per weekly bin from the bin of the earliest row to the bin of the latest,
\* bins without rows included with sum 0; no row at all gives no bin
weekly_revenue(rows) ==
    IF rows = <<>> THEN <<>>
    ELSE LET first == week_label(min_date(rows))
             last  == week_label(max_date(rows))
             n     == ((dt_date(last) - dt_date(first)) \div 7) + 1
         IN  [i \in 1..n |->
                LET label == first + to_datetime(7 * (i - 1))
                IN  [Date    |-> label,
                     Revenue |-> series_sum(SelectSeq(rows, LAMBDA r : week_label(r.Date) = label),
                                            "Revenue")]]

\* groupby(key)["Revenue"].sum().reset_index(): one row per key present, keys sorted
group_revenue(rows, keys, f) ==
    LET present == SelectSeq(keys, LAMBDA k : k \in column(rows, f))
    IN  [i \in 1..Len(present) |->
           [Key     |-> present[i],
            Revenue |-> series_sum(SelectSeq(rows, LAMBDA r : r[f] = present[i]), "Revenue")]]

\* sort_desc without ascending=False
sort_asc(s) ==
    LET rank(i) == Cardinality({j \in 1..Len(s) : s[j].Revenue < s[i].Revenue})
                   + Cardinality({j \in 1..(i - 1) : s[j].Revenue = s[i].Revenue}) + 1
    IN  [k \in 1..Len(s) |-> s[CHOOSE i \in 1..Len(s) : rank(i) = k]]

\* sort_values("Revenue", ascending=False): rows of equal revenue keep their order
sort_desc(s) ==
    LET rank(i) == Cardinality({j \in 1..Len(s) : s[j].Revenue > s[i].Revenue})
                   + Cardinality({j \in 1..(i - 1) : s[j].Revenue = s[i].Revenue}) + 1
    IN  [k \in 1..Len(s) |-> s[CHOOSE i \in 1..Len(s) : rank(i) = k]]

\* .head(n)
head(s, n) == SubSeq(s, 1, min2(n, Len(s)))

\* groupby("Product")["Revenue"].sum().reset_index().sort_values(...).head(10)
top_products_of(rows) == head(sort_desc(group_revenue(rows, sorted_products, "Product")), TopN)

\* groupby("Region")["Revenue"].sum().reset_index()
region_summary_of(rows) == group_revenue(rows, sorted_regions, "Region")

\* ui_empty without the return of line 115: the run goes on to the charts
ui_empty_no_return ==
    <<"title", "metric_revenue", "metric_units", "metric_avg", "subheader_visualizations",
      "warning", "fig_time", "fig_top", "subheader_regional", "fig_region",
      "subheader_filtered", "dataframe", "download_button", "footer">>

\* what main renders in the page body, in order
ui_head   == <<"title", "metric_revenue", "metric_units", "metric_avg", "subheader_visualizations">>
ui_empty  == ui_head \o <<"warning">>
ui_charts == ui_head \o <<"fig_time", "fig_top", "subheader_regional", "fig_region",
                          "subheader_filtered", "dataframe", "download_button", "footer">>

\* one run of main on the frame generate_dummy_data returned, with the widgets'
\* values: every value the run computes and how it ends
main_run(frame, sel, cat, reg) ==
    LET df         == convert_dates(frame)
        date_range == date_input(sel, df)
        blank      == [outcome |-> "raised", df_filtered |-> <<>>, total_revenue |-> 0,
                       total_units |-> 0, avg_order_value |-> [num |-> 0, den |-> 1],
                       sales_time |-> <<>>, top_products |-> <<>>, region_summary |-> <<>>,
                       ui |-> <<>>]
    IN  IF Len(date_range) # 2
        THEN blank     \* start_dt, end_dt = date_range raises ValueError
        ELSE LET filtered == filter_rows(df, date_range[1], date_range[2], cat, reg)
                 revenue  == series_sum(filtered, "Revenue")
                 weekly   == weekly_revenue(filtered)
                 kpis     == [blank EXCEPT !.df_filtered = filtered,
                                           !.total_revenue = revenue,
                                           !.total_units = series_sum(filtered, "Units_Sold"),
                                           !.avg_order_value = avg_of(revenue, filtered),
                                           !.sales_time = weekly]
             IN  IF weekly = <<>>
                 THEN [kpis EXCEPT !.outcome = "warned", !.ui = ui_empty]
                 ELSE [kpis EXCEPT !.outcome = "done",
                                   !.top_products = top_products_of(filtered),
                                   !.region_summary = region_summary_of(filtered),
                                   !.ui = ui_charts]

----------------------------------------------------------------------------
(* The memoized call (@st.cache_data, lines 30-31) *)

count(k) == IF k \in DOMAIN gen_count THEN gen_count[k] ELSE 0

\* a call of the decorated function on calendar day `day`: a stored value is handed
\* back without running the body, otherwise the body runs and its value is stored
cache_data(store, key, day) ==
    IF key \in DOMAIN store
    THEN [value |-> store[key], hit |-> TRUE, store |-> store]
    ELSE LET df == generate_dummy_data(key[1], key[2], day)
         IN  [value |-> df, hit |-> FALSE, store |-> (key :> df) @@ store]

\* store_after_assign for a store that hands out the stored object itself
store_after_assign_shared(store, key, frame) == [store EXCEPT ![key] = frame]

\* the store after the caller assigned a column of the frame it was handed (line
\* 75): st.cache_data hands out a private copy of the stored value, so the
\* assignment does not reach the store
store_after_assign(store, key, frame) == store

\* the bookkeeping of a call c == cache_data(cache, key, today)
Called(key, c) ==
    /\ gen_count' = IF c.hit THEN gen_count ELSE (key :> (count(key) + 1)) @@ gen_count
    /\ first_returned' = IF key \in DOMAIN first_returned
                         THEN first_returned
                         ELSE (key :> c.value) @@ first_returned
    /\ call' = <<[key |-> key, hit |-> c.hit, df |-> c.value]>>
    /\ gen' = IF c.hit THEN gen
              ELSE <<[key |-> key, day |-> today, dates |-> date_axis(key[1], today),
                      df |-> c.value]>>

----------------------------------------------------------------------------
(* Actions *)

main_key == <<MainMonths, DefaultSeed>>

\* one run of main (lines 71-136), the widgets holding sel, cat and reg
Run(c, sel, cat, reg) ==
    \E out \in {main_run(c.value, sel, cat, reg)} :
        /\ Called(main_key, c)
        /\ cache' = store_after_assign(c.store, main_key, convert_dates(c.value))
        /\ date_sel' = sel
        /\ category' = cat
        /\ region' = reg
        /\ outcome' = out.outcome
        /\ df_filtered' = out.df_filtered
        /\ total_revenue' = out.total_revenue
        /\ total_units' = out.total_units
        /\ avg_order_value' = out.avg_order_value
        /\ sales_time' = out.sales_time
        /\ top_products' = out.top_products
        /\ region_summary' = out.region_summary
        /\ ui' = out.ui
        /\ UNCHANGED today

\* the values the date input hands to main that are explored, for a dataset whose
\* rows span the days lo..hi: the whole span, a start after the end, ranges outside
\* the span, ranges inside it, and a selection in progress that holds one date
date_choices(lo, hi) ==
    {<<lo, hi>>, <<hi, lo>>, <<hi + 1, hi + 2>>, <<lo - 2, lo - 1>>,
     <<lo, lo + 6>>, <<lo + 7, lo + 20>>, <<lo>>}

picks(options) == {options[i] : i \in 1..min2(MaxOption, Len(options))}

\* Streamlit runs the script when the page is loaded and again on any event
Rerun ==
    \E c \in {cache_data(cache, main_key, today)} :
        Run(c, date_sel, category, region)

\* the user changes the date input of the loaded page and Streamlit reruns the script
PickDates ==
    /\ outcome # "idle"
    /\ \E c \in {cache_data(cache, main_key, today)} :
          \E df \in {convert_dates(c.value)} :
             \E sel \in date_choices(dt_date(min_date(df)), dt_date(max_date(df))) :
                Run(c, sel, category, region)

\* the user changes the Category selectbox
PickCategory ==
    /\ outcome # "idle"
    /\ \E c \in {cache_data(cache, main_key, today)} :
          \E cat \in picks(category_options(convert_dates(c.value))) :
             Run(c, date_sel, cat, region)

\* the user changes the Region selectbox
PickRegion ==
    /\ outcome # "idle"
    /\ \E c \in {cache_data(cache, main_key, today)} :
          \E reg \in picks(region_options(convert_dates(c.value))) :
             Run(c, date_sel, category, reg)

\* a direct call generate_dummy_data(months=m, seed=s)
Generate(m, s) ==
    \E c \in {cache_data(cache, <<m, s>>, today)} :
        /\ Called(<<m, s>>, c)
        /\ cache' = c.store
        /\ UNCHANGED <<today, widgets, runvars>>

\* midnight passes
Tick ==
    /\ today < FirstDay + MaxTicks
    /\ today' = today + 1
    /\ UNCHANGED <<cache, gen_count, first_returned, call, gen, widgets, runvars>>

\* the process exits and is started again: the store and the session are gone
Restart ==
    /\ cache # <<>>
    /\ cache' = <<>>
    /\ gen_count' = <<>>
    /\ date_sel' = <<>>
    /\ category' = "All"
    /\ region' = "All"
    /\ outcome' = "idle"
    /\ df_filtered' = <<>>
    /\ total_revenue' = 0
    /\ total_units' = 0
    /\ avg_order_value' = [num |-> 0, den |-> 1]
    /\ sales_time' = <<>>
    /\ top_products' = <<>>
    /\ region_summary' = <<>>
    /\ ui' = <<>>
    /\ UNCHANGED <<today, first_returned, call, gen>>

----------------------------------------------------------------------------
(* Spec: the dashboard process.  SpecGen: the generator called directly.      *)
(* SpecPipe: one run of main over every small dataset and filter selection.  *)

Init ==
    /\ today = FirstDay
    /\ cache = <<>>
    /\ gen_count = <<>>
    /\ first_returned = <<>>
    /\ call = <<>>
    /\ gen = <<>>
    /\ date_sel = <<>>
    /\ category = "All"
    /\ region = "All"
    /\ outcome = "idle"
    /\ df_filtered = <<>>
    /\ total_revenue = 0
    /\ total_units = 0
    /\ avg_order_value = [num |-> 0, den |-> 1]
    /\ sales_time = <<>>
    /\ top_products = <<>>
    /\ region_summary = <<>>
    /\ ui = <<>>

Next == Rerun \/ PickDates \/ PickCategory \/ PickRegion \/ Tick \/ Restart

Spec == Init /\ [][Next]_vars

Seeds == {DefaultSeed}

NextGen ==
    \/ \E m \in 1..MaxMonths, s \in Seeds : Generate(m, s)
    \/ Tick
    \/ Restart

SpecGen == Init /\ [][NextGen]_vars

\* rows the generator can produce: a product of the catalog with its category, a
\* unit count and a revenue inside units * price * [0.8, 1.2] * trend
PipeDays     == {13, 14, 27}
PipeProducts == {"Classic Tee", "Running Shorts", "Water Bottle"}
PipeRegions  == {"North", "South"}
pipe_units(p)   == IF p = "Water Bottle" THEN 2 ELSE 1
pipe_revenue(p) == IF p = "Water Bottle" THEN 1750 ELSE 1650
PipeRows ==
    {[Date |-> d, Product |-> p, Category |-> category_of(p), Units_Sold |-> pipe_units(p),
      Revenue |-> pipe_revenue(p), Region |-> r] :
        d \in PipeDays, p \in PipeProducts, r \in PipeRegions}

\* datasets of 1..MaxRows rows, in date order as the generator appends them
PipeDatasets ==
    {ds \in UNION {[1..n -> PipeRows] : n \in 1..MaxRows} :
        \A i \in 1..(Len(ds) - 1) : ds[i].Date <= ds[i + 1].Date}

PipeProbes == {12, 13, 14, 27, 28}
PipeDateSels ==
    {<<a, b>> : a \in PipeProbes, b \in PipeProbes} \ {<<28, 12>>, <<28, 13>>, <<28, 14>>,
                                                        <<27, 12>>, <<27, 14>>, <<14, 12>>,
                                                        <<13, 12>>, <<28, 27>>}

\* the process has generated the dataset, the user has set the filters, and the
\* script is about to run again
InitPipe ==
    /\ today = FirstDay
    /\ \E ds \in PipeDatasets :
          /\ cache = (main_key :> ds)
          /\ first_returned = (main_key :> ds)
          /\ call = <<[key |-> main_key, hit |-> FALSE, df |-> ds]>>
          /\ gen = <<[key |-> main_key, day |-> FirstDay,
                      dates |-> date_axis(MainMonths, FirstDay), df |-> ds]>>
          /\ date_sel \in PipeDateSels
          /\ category \in {category_options(ds)[i] : i \in 1..Len(category_options(ds))}
          /\ region \in {region_options(ds)[i] : i \in 1..Len(region_options(ds))}
    /\ gen_count = (main_key :> 1)
    /\ outcome = "idle"
    /\ df_filtered = <<>>
    /\ total_revenue = 0
    /\ total_units = 0
    /\ avg_order_value = [num |-> 0, den |-> 1]
    /\ sales_time = <<>>
    /\ top_products = <<>>
    /\ region_summary = <<>>
    /\ ui = <<>>

NextPipe == Rerun

SpecPipe == InitPipe /\ [][NextPipe]_vars

----------------------------------------------------------------------------
(* Claims about the generator, checked under SpecGen *)

\* C1: for every fixed (months, seed), any two calls of generate_dummy_data, whenever
\* they are made, return identical datasets: every call returns what the first call
\* with the same arguments returned.
C1_SameDatasetOnEveryCall ==
    call # <<>> => call[1].df = first_returned[call[1].key]

\* the fraction trend_num / trend_den of the day at index i of the axis
C8_num(dates, i) == trend_num(dates[i], dates)
C8_den(dates)    == trend_den(dates)

\* C8: over every generation window the trend factor is linear in the day's offset,
\* is 1.0 on the first day, stays within 1.0 .. 1.2 and reaches 1.2 at the end of the
\* window: on the last of the n days it is at least 1 + 0.2 * (n - 1) / n.
C8_TrendRisesTo120 ==
    gen # <<>> =>
        LET dates == gen[1].dates
            n     == Len(dates)
            den   == C8_den(dates)
        IN  /\ C8_num(dates, 1) = den
            /\ \A i \in 1..(n - 1) :
                  C8_num(dates, i + 1) - C8_num(dates, i) = C8_num(dates, 2) - C8_num(dates, 1)
            /\ \A i \in 1..n : den <= C8_num(dates, i) /\ 5 * C8_num(dates, i) <= 6 * den
            /\ 5 * n * (C8_num(dates, n) - den) >= (n - 1) * den

\* the axis of the latest generation is months * 30 consecutive calendar days and
\* every generated row is dated on one of them
C9_Axis(g) ==
    /\ Len(g.dates) = g.key[1] * 30
    /\ \A i \in 1..(Len(g.dates) - 1) : g.dates[i + 1] = g.dates[i] + 1
    /\ \A j \in 1..Len(g.df) : \E i \in 1..Len(g.dates) : g.df[j].Date = g.dates[i]

\* C9 as stated: the axis is months * 30 consecutive days, the window ends on the
\* generation day (today), and every record's Date is one of these days.
C9_WindowEndsToday ==
    gen # <<>> => C9_Axis(gen[1]) /\ gen[1].dates[Len(gen[1].dates)] = gen[1].day

\* C9 amended: the axis is months * 30 consecutive days, it starts months * 30 days
\* before the generation day and ends on the day before the generation day, and
\* every record's Date is one of these days.
C9_WindowEndsYesterday ==
    gen # <<>> =>
        /\ C9_Axis(gen[1])
        /\ gen[1].dates[1] = gen[1].day - 30 * gen[1].key[1]
        /\ gen[1].dates[Len(gen[1].dates)] = gen[1].day - 1

C9_Witness ==
    /\ gen # <<>>
    /\ gen[1].key[1] = 2
    /\ gen[1].day = FirstDay + 1
    /\ Len(gen[1].df) > 1

----------------------------------------------------------------------------
(* Claims about a run of main *)

\* the dataset the latest run of main was handed, as the generator produced it
C_dataset == call[1].df

\* the dates the date input returned to the latest run
C_range ==
    IF date_sel # <<>> THEN date_sel
    ELSE <<seq_min({C_dataset[i].Date : i \in 1..Len(C_dataset)}),
           seq_max({C_dataset[i].Date : i \in 1..Len(C_dataset)})>>

\* the rows of the dataset that match all three filters, by index
C_matching ==
    {i \in 1..Len(C_dataset) :
        /\ C_range[1] <= C_dataset[i].Date
        /\ C_dataset[i].Date <= C_range[2]
        /\ (category = "All" \/ C_dataset[i].Category = category)
        /\ (region = "All" \/ C_dataset[i].Region = region)}

\* the run got past the unpacking of the date range and computed its aggregates
C_computed == outcome \in {"warned", "done"}

RECURSIVE C_revenue(_, _)
\* the revenue of the rows of `rows` with an index in S, added up one by one
C_revenue(rows, S) ==
    IF S = {} THEN 0
    ELSE LET i == CHOOSE j \in S : TRUE
         IN  rows[i].Revenue + C_revenue(rows, S \ {i})

\* C2: df_filtered holds exactly the records with start_dt <= Date <= end_dt (both
\* bounds inclusive) that match the category and the region unless these are "All",
\* in dataset order, none added, dropped or altered (the Date is the Timestamp of
\* the record's day); the full range with "All" / "All" returns the whole dataset.
C2_FilterExact ==
    C_computed =>
        /\ Len(df_filtered) = Cardinality(C_matching)
        /\ \A j \in 1..Len(df_filtered) :
              \E i \in C_matching :
                 /\ Cardinality({k \in C_matching : k <= i}) = j
                 /\ [df_filtered[j] EXCEPT !.Date = 0] = [C_dataset[i] EXCEPT !.Date = 0]
                 /\ df_filtered[j].Date = C_dataset[i].Date * (24 * 60 * 60)
        /\ (/\ category = "All"
            /\ region = "All"
            /\ \A i \in 1..Len(C_dataset) :
                  C_range[1] <= C_dataset[i].Date /\ C_dataset[i].Date <= C_range[2])
           => Len(df_filtered) = Len(C_dataset)

C2_Witness ==
    /\ outcome = "done"
    /\ Len(C_dataset) = 2
    /\ Len(df_filtered) = 1
    /\ category # "All"
    /\ region # "All"
    /\ date_sel[2] = C_dataset[1].Date
    /\ df_filtered[1].Product = C_dataset[1].Product

\* the products of the filtered rows and the summed revenue of one of them
C3_products == {df_filtered[j].Product : j \in 1..Len(df_filtered)}
C3_sum(p) == C_revenue(df_filtered, {j \in 1..Len(df_filtered) : df_filtered[j].Product = p})

\* C3: for a non-empty filtered set with k distinct products, top_products has
\* min(10, k) entries, one per product, each with the summed revenue of that
\* product's filtered records, in non-increasing order of revenue, and no product
\* left out has a greater sum than one that is included.
C3_TopProducts ==
    (C_computed /\ df_filtered # <<>>) =>
        /\ Len(top_products) = min2(10, Cardinality(C3_products))
        /\ \A a \in 1..Len(top_products) :
              /\ top_products[a].Key \in C3_products
              /\ top_products[a].Revenue = C3_sum(top_products[a].Key)
              /\ \A b \in 1..Len(top_products) :
                    /\ (a # b => top_products[a].Key # top_products[b].Key)
                    /\ (a < b => top_products[a].Revenue >= top_products[b].Revenue)
        /\ \A p \in C3_products :
              (\A a \in 1..Len(top_products) : top_products[a].Key # p)
              => \A a \in 1..Len(top_products) : C3_sum(p) <= top_products[a].Revenue

C3_Witness ==
    /\ outcome = "done"
    /\ Len(top_products) = 2
    /\ top_products[1].Revenue > top_products[2].Revenue
    /\ top_products[1].Key = "Water Bottle"
    /\ top_products[2].Key = "Classic Tee"

\* the calendar days of the window of weekly bucket i: the seven days that end on
\* the day of its label
C4_window(i) ==
    LET last == sales_time[i].Date \div (24 * 60 * 60)
    IN  (last - 6)..last
C4_day(j) == df_filtered[j].Date \div (24 * 60 * 60)

\* C4: the weekly buckets are consecutive, non-overlapping 7-day calendar windows in
\* chronological order, every filtered record falls in exactly one of them, each
\* bucket holds the summed revenue of the filtered records dated in its window, and
\* the buckets add up to total_revenue.
C4_WeeklySeries ==
    C_computed =>
        /\ \A i \in 1..Len(sales_time) : sales_time[i].Date % (24 * 60 * 60) = 0
        /\ \A i \in 1..(Len(sales_time) - 1) :
              sales_time[i + 1].Date = sales_time[i].Date + 7 * (24 * 60 * 60)
        /\ \A j \in 1..Len(df_filtered) :
              Cardinality({i \in 1..Len(sales_time) : C4_day(j) \in C4_window(i)}) = 1
        /\ \A i \in 1..Len(sales_time) :
              sales_time[i].Revenue =
                 C_revenue(df_filtered, {j \in 1..Len(df_filtered) : C4_day(j) \in C4_window(i)})
        /\ C_revenue(sales_time, 1..Len(sales_time)) = total_revenue
        /\ total_revenue = C_revenue(df_filtered, 1..Len(df_filtered))

C4_Witness ==
    /\ outcome = "done"
    /\ Len(df_filtered) = 2
    /\ C4_day(1) = 13
    /\ C4_day(2) = 27
    /\ Len(sales_time) = 3
    /\ sales_time[1].Revenue > 0
    /\ sales_time[2].Revenue = 0
    /\ sales_time[3].Revenue > 0

\* the date range of the latest run lies entirely outside the span of the dataset
C5_outside ==
    /\ Len(C_range) = 2
    /\ C_range[1] <= C_range[2]
    /\ \/ \A i \in 1..Len(C_dataset) : C_range[2] < C_dataset[i].Date
       \/ \A i \in 1..Len(C_dataset) : C_range[1] > C_dataset[i].Date

\* C5: for a date range entirely outside the dataset's span, with any category and
\* region, the filtered set is empty, total_revenue, total_units and the average
\* revenue per row are 0 (the divisor is not 0), the weekly series is empty and the
\* warning is shown.
C5_EmptyWindow ==
    (outcome # "idle" /\ C5_outside) =>
        /\ df_filtered = <<>>
        /\ total_revenue = 0
        /\ total_units = 0
        /\ avg_order_value.num = 0
        /\ avg_order_value.den # 0
        /\ sales_time = <<>>
        /\ outcome = "warned"
        /\ \E a \in 1..Len(ui) : ui[a] = "warning"

C5_Witness ==
    /\ outcome = "warned"
    /\ date_sel = <<12, 12>>
    /\ category # "All"
    /\ region # "All"
    /\ Len(C_dataset) = 2
    /\ "warning" \in {ui[a] : a \in 1..Len(ui)}

C6_rendered == {ui[a] : a \in 1..Len(ui)}
C6_outputs  == {"fig_time", "fig_top", "fig_region", "dataframe", "download_button"}

C7_NoException ==
    outcome # "raised"

\* C10: over any sequence of runs of main in a process the dataset is generated
\* exactly once, on the first run, every later run reads the cached dataset, and no
\* run changes it: the store holds the dataset as the generator produced it on the
\* day of its generation, whatever the runs did to the frames they were handed.
C10_CachedDatasetWriteOnce ==
    /\ \A k \in DOMAIN gen_count : gen_count[k] = 1 /\ k \in DOMAIN cache
    /\ \A k \in DOMAIN cache : k \in DOMAIN gen_count
    /\ outcome # "idle" =>
          /\ main_key \in DOMAIN cache
          /\ gen[1].key = main_key
          /\ cache[main_key] = generate_dummy_data(MainMonths, DefaultSeed, gen[1].day)
          /\ call[1].df = cache[main_key]

C10_Witness ==
    /\ outcome = "done"
    /\ call[1].hit
    /\ today > gen[1].day
    /\ df_filtered # <<>>
    /\ df_filtered[1].Date # cache[main_key][1].Date
    /\ date_sel # <<>>

====
